---- MODULE Spec2Model ----
(***************************************************************************)
(* Model of src/util/mod.rs of cargo-mobile: the process relay pipe(),     *)
(* the pattern extractor run_and_search(), and RustVersion::check() and    *)
(* RustVersion::valid().                                                   *)
(*                                                                         *)
(* Four state machines share the module, one specification each:           *)
(*   Spec / FairSpec  one attempt of pipe(), with the producer and the     *)
(*                    consumer as OS processes and the OS pipe between     *)
(*                    this process and the consumer's standard input       *)
(*   ValidSpec        RustVersion::valid() on a target OS                  *)
(*   CheckSpec        RustVersion::check() in an environment               *)
(*   SearchSpec       run_and_search()                                     *)
(* The variables of the machines a specification does not run stay at      *)
(* their initial values.                                                   *)
(***************************************************************************)
EXTENDS Naturals, Integers, Sequences, FiniteSets

VARIABLES
    \* ---- pipe()
    pc,          \* where the caller of pipe() is
    txState,     \* the producer process: none, running, exited_ok, failed
    txOut,       \* tx_output.stdout(): the producer's captured bytes
    rxState,     \* the consumer process: none, failed, running, stopped, exited
    rxStdout,    \* how the consumer's standard output was set up
    stdinOpen,   \* this process holds the write end of the consumer's stdin
    buf,         \* bytes in the OS pipe, written and not yet read
    sent,        \* bytes write_all has handed to the OS pipe so far
    pipeResult,  \* pipe_result: none, ok, err
    waitResult,  \* wait_result: none, ok, err
    returned,    \* the values pipe() has returned (a sequence: at most one)
    ops,         \* the process operations pipe() has performed, in order
    \* ---- RustVersion::valid()
    targetOs,    \* cfg!(target_os)
    self,        \* the RustVersion: [triple, date]
    validRet,    \* the values valid() has returned (a sequence: at most one)
    \* ---- RustVersion::check()
    rustc,       \* what `rustc --version` would do in this environment
    checkRet,    \* the values check() has returned (a sequence: at most one)
    \* ---- run_and_search()
    searchArgs,  \* the arguments of the call and what its command does
    searchRet,   \* the values run_and_search() has returned (at most one)
    applied      \* the applications of re and of f the call made, in order

pipeVars == <<pc, txState, txOut, rxState, rxStdout, stdinOpen, buf, sent,
              pipeResult, waitResult, returned, ops>>
validVars == <<targetOs, self, validRet>>
checkVars == <<rustc, checkRet>>
searchVars == <<searchArgs, searchRet, applied>>
vars == <<pipeVars, validVars, checkVars, searchVars>>

\* ------------------------------------------------------------------ bounds
MaxOut == 3     \* longest producer output, in bytes
MaxByte == 1    \* bytes are 0..MaxByte
PipeCap == 2    \* capacity of the OS pipe, in bytes
Span == 1       \* version and date fields range this far around the constants
MaxText == 3    \* longest command output given to run_and_search, in characters

Bytes == 0..MaxByte

RECURSIVE SeqsUpTo(_, _)
SeqsUpTo(S, n) ==
    IF n = 0 THEN {<<>>}
    ELSE LET shorter == SeqsUpTo(S, n - 1)
         IN  shorter \cup {Append(s, x) : s \in {t \in shorter : Len(t) = n - 1}, x \in S}

Outputs == SeqsUpTo(Bytes, MaxOut)

\* ------------------------------------------------------------------ pipe()

PipeInit ==
    /\ pc = "call"
    /\ txState = "none"
    /\ txOut = <<>>
    /\ rxState = "none"
    /\ rxStdout = "none"
    /\ stdinOpen = FALSE
    /\ buf = <<>>
    /\ sent = <<>>
    /\ pipeResult = "none"
    /\ waitResult = "none"
    /\ returned = <<>>
    /\ ops = <<>>

\* lines 252-254: tx_command.run_and_wait_for_output() starts the producer;
\* a launch failure is mapped to TxCommandFailed and returned by `?`.
RunTx ==
    /\ pc = "call"
    /\ \E launched \in BOOLEAN :
          IF launched
          THEN /\ txState' = "running"
               /\ pc' = "tx_wait"
               /\ returned' = returned
          ELSE /\ txState' = "failed"
               /\ pc' = "done"
               /\ returned' = Append(returned, "TxCommandFailed")
    /\ ops' = Append(ops, "run_tx")
    /\ UNCHANGED <<txOut, rxState, rxStdout, stdinOpen, buf, sent, pipeResult, waitResult>>
    /\ UNCHANGED <<validVars, checkVars, searchVars>>

\* lines 252-254: the producer exits and run_and_wait_for_output() returns
\* its captured output, or an error that `?` returns as TxCommandFailed.
TxExit ==
    /\ pc = "tx_wait"
    /\ txState = "running"
    /\ \E ok \in BOOLEAN, out \in Outputs :
          IF ok
          THEN /\ txState' = "exited_ok"
               /\ txOut' = out
               /\ pc' = "check"
               /\ returned' = returned
          ELSE /\ txState' = "failed"
               /\ txOut' = txOut
               /\ pc' = "done"
               /\ returned' = Append(returned, "TxCommandFailed")
    /\ UNCHANGED <<rxState, rxStdout, stdinOpen, buf, sent, pipeResult, waitResult, ops>>
    /\ UNCHANGED <<validVars, checkVars, searchVars>>

\* In place of CheckEmpty: the emptiness test inverted.
CheckEmptyInverted ==
    /\ pc = "check"
    /\ IF txOut # <<>>
       THEN /\ pc' = "done"
            /\ returned' = Append(returned, "OkFalse")
       ELSE /\ pc' = "spawn"
            /\ returned' = returned
    /\ UNCHANGED <<txState, txOut, rxState, rxStdout, stdinOpen, buf, sent,
                   pipeResult, waitResult, ops>>
    /\ UNCHANGED <<validVars, checkVars, searchVars>>

\* lines 255, 272-274: if !tx_output.stdout().is_empty() { ... } else { Ok(false) }
CheckEmpty ==
    /\ pc = "check"
    /\ IF txOut = <<>>
       THEN /\ pc' = "done"
            /\ returned' = Append(returned, "OkFalse")
       ELSE /\ pc' = "spawn"
            /\ returned' = returned
    /\ UNCHANGED <<txState, txOut, rxState, rxStdout, stdinOpen, buf, sent,
                   pipeResult, waitResult, ops>>
    /\ UNCHANGED <<validVars, checkVars, searchVars>>

\* In place of SpawnRx: a launch failure reported with the wrong variant.
SpawnRxWrongVariant ==
    /\ pc = "spawn"
    /\ \E launched \in BOOLEAN :
          IF launched
          THEN /\ rxState' = "running"
               /\ rxStdout' = "inherit"
               /\ stdinOpen' = TRUE
               /\ pc' = "write"
               /\ returned' = returned
          ELSE /\ rxState' = "failed"
               /\ UNCHANGED <<rxStdout, stdinOpen>>
               /\ pc' = "done"
               /\ returned' = Append(returned, "PipeFailed")
    /\ ops' = Append(ops, "spawn_rx")
    /\ UNCHANGED <<txState, txOut, buf, sent, pipeResult, waitResult>>
    /\ UNCHANGED <<validVars, checkVars, searchVars>>

\* lines 256-260: rx_command.with_stdin_piped().with_stdout(inherit).run();
\* a launch failure is mapped to RxCommandFailed and returned by `?`.
SpawnRx ==
    /\ pc = "spawn"
    /\ \E launched \in BOOLEAN :
          IF launched
          THEN /\ rxState' = "running"
               /\ rxStdout' = "inherit"
               /\ stdinOpen' = TRUE
               /\ pc' = "write"
               /\ returned' = returned
          ELSE /\ rxState' = "failed"
               /\ UNCHANGED <<rxStdout, stdinOpen>>
               /\ pc' = "done"
               /\ returned' = Append(returned, "RxCommandFailed")
    /\ ops' = Append(ops, "spawn_rx")
    /\ UNCHANGED <<txState, txOut, buf, sent, pipeResult, waitResult>>
    /\ UNCHANGED <<validVars, checkVars, searchVars>>

\* lines 261-264: write_all hands the next byte to the OS pipe; it blocks
\* while the pipe is full and the consumer still holds the read end.
WriteChunk ==
    /\ pc = "write"
    /\ Len(sent) < Len(txOut)
    /\ rxState # "exited"
    /\ Len(buf) < PipeCap
    /\ buf' = Append(buf, txOut[Len(sent) + 1])
    /\ sent' = Append(sent, txOut[Len(sent) + 1])
    /\ UNCHANGED <<pc, txState, txOut, rxState, rxStdout, stdinOpen,
                   pipeResult, waitResult, returned, ops>>
    /\ UNCHANGED <<validVars, checkVars, searchVars>>

\* In place of WriteDone: write() in place of write_all(): one call, which
\* may write only a part of the bytes, reported as success.
WriteDoneShort ==
    /\ pc = "write"
    /\ Len(sent) >= 1
    /\ pipeResult' = "ok"
    /\ pc' = "wait"
    /\ ops' = Append(ops, "write")
    /\ UNCHANGED <<txState, txOut, rxState, rxStdout, stdinOpen, buf, sent,
                   waitResult, returned>>
    /\ UNCHANGED <<validVars, checkVars, searchVars>>

\* lines 261-265: write_all returns Ok once every byte is in the OS pipe;
\* pipe_result is kept, not returned.
WriteDone ==
    /\ pc = "write"
    /\ sent = txOut
    /\ pipeResult' = "ok"
    /\ pc' = "wait"
    /\ ops' = Append(ops, "write")
    /\ UNCHANGED <<txState, txOut, rxState, rxStdout, stdinOpen, buf, sent,
                   waitResult, returned>>
    /\ UNCHANGED <<validVars, checkVars, searchVars>>

\* In place of WriteBrokenPipe: the write error returned by `?` at once.
WriteBrokenPipeReturns ==
    /\ pc = "write"
    /\ Len(sent) < Len(txOut)
    /\ rxState = "exited"
    /\ pipeResult' = "err"
    /\ pc' = "done"
    /\ returned' = Append(returned, "PipeFailed")
    /\ ops' = Append(ops, "write")
    /\ UNCHANGED <<txState, txOut, rxState, rxStdout, stdinOpen, buf, sent, waitResult>>
    /\ UNCHANGED <<validVars, checkVars, searchVars>>

\* lines 261-265: the consumer has exited with bytes still to write: the
\* write fails (broken pipe); the error is mapped to PipeFailed and kept in
\* pipe_result, not returned.
WriteBrokenPipe ==
    /\ pc = "write"
    /\ Len(sent) < Len(txOut)
    /\ rxState = "exited"
    /\ pipeResult' = "err"
    /\ pc' = "wait"
    /\ ops' = Append(ops, "write")
    /\ UNCHANGED <<txState, txOut, rxState, rxStdout, stdinOpen, buf, sent,
                   waitResult, returned>>
    /\ UNCHANGED <<validVars, checkVars, searchVars>>

\* lines 261-265: any other I/O error of the write, at any point of it.
WriteIoError ==
    /\ pc = "write"
    /\ Len(sent) < Len(txOut)
    /\ pipeResult' = "err"
    /\ pc' = "wait"
    /\ ops' = Append(ops, "write")
    /\ UNCHANGED <<txState, txOut, rxState, rxStdout, stdinOpen, buf, sent,
                   waitResult, returned>>
    /\ UNCHANGED <<validVars, checkVars, searchVars>>

\* In place of Wait: the stdin handle taken out of the child and kept alive
\* across the wait.
WaitKeepsStdin ==
    /\ pc = "wait"
    /\ pc' = "waiting"
    /\ ops' = Append(ops, "wait")
    /\ UNCHANGED <<txState, txOut, rxState, rxStdout, stdinOpen, buf, sent,
                   pipeResult, waitResult, returned>>
    /\ UNCHANGED <<validVars, checkVars, searchVars>>

\* line 266: rx_command.wait_for_output() is entered whatever pipe_result is.
\* The handle still owns the stdin that line 262 only borrowed, and the wait
\* of std::process::Child closes the child's stdin before it blocks.
Wait ==
    /\ pc = "wait"
    /\ stdinOpen' = FALSE
    /\ pc' = "waiting"
    /\ ops' = ops \o <<"close_stdin", "wait">>
    /\ UNCHANGED <<txState, txOut, rxState, rxStdout, buf, sent,
                   pipeResult, waitResult, returned>>
    /\ UNCHANGED <<validVars, checkVars, searchVars>>

\* line 266: the consumer has exited and wait_for_output() returns; an error
\* is mapped to WaitFailed and kept in wait_result, not returned.
WaitReturn ==
    /\ pc = "waiting"
    /\ rxState = "exited"
    /\ \E r \in {"ok", "err"} : waitResult' = r
    /\ pc' = "arbitrate"
    /\ UNCHANGED <<txState, txOut, rxState, rxStdout, stdinOpen, buf, sent,
                   pipeResult, returned, ops>>
    /\ UNCHANGED <<validVars, checkVars, searchVars>>

\* In place of Return: wait_result? before pipe_result?.
ReturnWaitFirst ==
    /\ pc = "arbitrate"
    /\ returned' = Append(returned,
                     IF waitResult = "err" THEN "WaitFailed"
                     ELSE IF pipeResult = "err" THEN "PipeFailed"
                     ELSE "OkTrue")
    /\ pc' = "done"
    /\ UNCHANGED <<txState, txOut, rxState, rxStdout, stdinOpen, buf, sent,
                   pipeResult, waitResult, ops>>
    /\ UNCHANGED <<validVars, checkVars, searchVars>>

\* lines 267-271: pipe_result?; wait_result?; Ok(true)
Return ==
    /\ pc = "arbitrate"
    /\ returned' = Append(returned,
                     IF pipeResult = "err" THEN "PipeFailed"
                     ELSE IF waitResult = "err" THEN "WaitFailed"
                     ELSE "OkTrue")
    /\ pc' = "done"
    /\ UNCHANGED <<txState, txOut, rxState, rxStdout, stdinOpen, buf, sent,
                   pipeResult, waitResult, ops>>
    /\ UNCHANGED <<validVars, checkVars, searchVars>>

\* The consumer (lines 256-259 start it) reads a byte of its standard input.
RxRead ==
    /\ rxState = "running"
    /\ buf # <<>>
    /\ buf' = Tail(buf)
    /\ UNCHANGED <<pc, txState, txOut, rxState, rxStdout, stdinOpen, sent,
                   pipeResult, waitResult, returned, ops>>
    /\ UNCHANGED <<validVars, checkVars, searchVars>>

\* The consumer stops reading its standard input before end-of-input.
RxStopReading ==
    /\ rxState = "running"
    /\ rxState' = "stopped"
    /\ UNCHANGED <<pc, txState, txOut, rxStdout, stdinOpen, buf, sent,
                   pipeResult, waitResult, returned, ops>>
    /\ UNCHANGED <<validVars, checkVars, searchVars>>

\* The consumer exits: it has stopped reading, or it has read everything and
\* sees end-of-input (no byte left and the write end closed).
RxExit ==
    /\ \/ rxState = "stopped"
       \/ rxState = "running" /\ buf = <<>> /\ ~stdinOpen
    /\ rxState' = "exited"
    /\ UNCHANGED <<pc, txState, txOut, rxStdout, stdinOpen, buf, sent,
                   pipeResult, waitResult, returned, ops>>
    /\ UNCHANGED <<validVars, checkVars, searchVars>>

ValidIdle == targetOs = "none" /\ self = "none" /\ validRet = <<>>
CheckIdle == rustc = "none" /\ checkRet = <<>>
SearchIdle == searchArgs = "none" /\ searchRet = <<>> /\ applied = <<>>

Init == PipeInit /\ ValidIdle /\ CheckIdle /\ SearchIdle

Next ==
    \/ RunTx
    \/ TxExit
    \/ CheckEmpty
    \/ SpawnRx
    \/ WriteChunk
    \/ WriteDone
    \/ WriteBrokenPipe
    \/ WriteIoError
    \/ Wait
    \/ WaitReturn
    \/ Return
    \/ RxRead
    \/ RxStopReading
    \/ RxExit

Spec == Init /\ [][Next]_vars

\* The fairness the scheduling gives: the one controlling thread runs every
\* step of pipe() that is not blocked, a started producer exits, and a
\* consumer reads the input it has while it has not stopped reading, and
\* exits once it has seen end-of-input or has stopped reading.  An I/O error
\* of the write and the consumer's choice to stop reading are under no
\* fairness: they may never happen.
FairSpec ==
    /\ Init
    /\ [][Next]_vars
    /\ WF_vars(RunTx)
    /\ WF_vars(TxExit)
    /\ WF_vars(CheckEmpty)
    /\ WF_vars(SpawnRx)
    /\ WF_vars(WriteChunk)
    /\ WF_vars(WriteDone)
    /\ WF_vars(WriteBrokenPipe)
    /\ WF_vars(Wait)
    /\ WF_vars(WaitReturn)
    /\ WF_vars(Return)
    /\ WF_vars(RxRead)
    /\ WF_vars(RxExit)

\* ------------------------------------------------------- claims on pipe()

Launched == rxState \in {"running", "stopped", "exited"}

Occurs(op) == \E i \in 1..Len(ops) : ops[i] = op

Before(a, b) == \E i, j \in 1..Len(ops) : i < j /\ ops[i] = a /\ ops[j] = b

\* C1: whenever the producer ran successfully and its captured output is
\* empty, the consumer is never started (no spawn, no write, no wait: the
\* only operation of the attempt is the run of the producer) and the one
\* value the call returns is Ok(false).
C1_EmptyOutputReturnsFalse ==
    (txState = "exited_ok" /\ txOut = <<>>) =>
        /\ pc \in {"check", "done"}
        /\ ops = <<"run_tx">>
        /\ rxState = "none"
        /\ sent = <<>>
        /\ pc = "done" => returned = <<"OkFalse">>

C1_Witness ==
    /\ pc = "done"
    /\ txState = "exited_ok"
    /\ txOut = <<>>
    /\ returned = <<"OkFalse">>

\* C2: once the consumer has been launched, a failed write returns PipeFailed
\* whether the wait succeeded or failed, and a successful write followed by a
\* failed wait returns WaitFailed.
C2_WriteErrorHasPriority ==
    (pc = "done" /\ Launched) =>
        /\ pipeResult = "err" => returned = <<"PipeFailed">>
        /\ (pipeResult = "ok" /\ waitResult = "err") => returned = <<"WaitFailed">>

C2_Witness ==
    /\ pc = "done"
    /\ Launched
    /\ pipeResult = "err"
    /\ waitResult = "err"
    /\ returned = <<"PipeFailed">>

\* C3: pipe() never returns with a launched consumer that was not waited on:
\* in every attempt that launched the consumer, the wait was performed and
\* had returned before pipe() returned, also when the write failed.
C3_LaunchedConsumerIsWaitedOn ==
    (pc = "done" /\ Launched) =>
        /\ Occurs("wait")
        /\ waitResult # "none"
        /\ rxState = "exited"

C3_Witness ==
    /\ pc = "done"
    /\ Launched
    /\ pipeResult = "err"
    /\ Occurs("wait")
    /\ waitResult # "none"

\* C4: in every attempt that launched the consumer, pipe() holds the
\* consumer's input stream open exactly until the write step is over, and
\* closes it after the write step and before the wait blocks, whether the
\* write succeeded or failed: the wait never blocks on a consumer whose input
\* stream pipe() still holds open, and pipe() never returns with it open.
C4_StdinClosedForTheWait ==
    Launched =>
        /\ stdinOpen <=> pc \in {"write", "wait"}
        /\ ~stdinOpen =>
              /\ pipeResult # "none"
              /\ Before("write", "close_stdin")
              /\ Before("close_stdin", "wait")

C4_Witness ==
    /\ pc = "waiting"
    /\ rxState = "running"
    /\ pipeResult = "err"
    /\ ~stdinOpen

\* C5: a producer failure returns TxCommandFailed at once with the consumer
\* never started; a consumer launch failure returns RxCommandFailed at once
\* with neither the write nor the wait attempted; neither variant is returned
\* once the consumer launched, and PipeFailed and WaitFailed are returned only
\* once it launched.
C5_LaunchFailuresShortCircuit ==
    /\ txState = "failed" =>
          /\ pc = "done"
          /\ returned = <<"TxCommandFailed">>
          /\ ops = <<"run_tx">>
          /\ rxState = "none"
    /\ rxState = "failed" =>
          /\ pc = "done"
          /\ returned = <<"RxCommandFailed">>
          /\ ops = <<"run_tx", "spawn_rx">>
          /\ sent = <<>>
          /\ pipeResult = "none"
          /\ waitResult = "none"
    /\ \A i \in 1..Len(returned) :
          /\ returned[i] = "TxCommandFailed" => txState = "failed"
          /\ returned[i] = "RxCommandFailed" => rxState = "failed"
          /\ returned[i] \in {"PipeFailed", "WaitFailed"} => Launched

C5_Witness ==
    /\ rxState = "failed"
    /\ txState = "exited_ok"
    /\ returned = <<"RxCommandFailed">>

\* C6: pipe() returns Ok(true) exactly when the producer ran successfully
\* with non-empty output, the consumer launched, the write succeeded and the
\* wait succeeded; then the consumer's standard output was inherited and
\* every producer byte had been written, in order, before the wait.
C6_OkTrueExactlyOnFullRelay ==
    /\ pc = "done" =>
          (returned = <<"OkTrue">> <=>
              /\ txState = "exited_ok"
              /\ txOut # <<>>
              /\ Launched
              /\ pipeResult = "ok"
              /\ waitResult = "ok")
    /\ (pc = "done" /\ returned = <<"OkTrue">>) =>
          /\ rxStdout = "inherit"
          /\ sent = txOut
          /\ Before("write", "wait")
    /\ (Occurs("wait") /\ pipeResult = "ok") => sent = txOut

C6_Witness ==
    /\ pc = "done"
    /\ returned = <<"OkTrue">>
    /\ Len(txOut) > PipeCap
    /\ sent = txOut
    /\ rxStdout = "inherit"

\* C10: under FairSpec's fairness every attempt of pipe() eventually returns,
\* and it returns exactly one result: it is never blocked forever on the
\* write or on the wait.
C10_PipeReturnsExactlyOnce ==
    /\ <>[](pc = "done" /\ Len(returned) = 1)
    /\ [](Len(returned) <= 1)

\* An attempt that returned after a write longer than the OS pipe holds (the
\* write had to block until the consumer read) and a wait for a consumer that
\* read to end-of-input.
C10_Witness ==
    /\ pc = "done"
    /\ Len(returned) = 1
    /\ Len(txOut) > PipeCap
    /\ pipeResult = "ok"
    /\ rxState = "exited"

\* ---------------------------------------------------- RustVersion::valid()

LAST_GOOD_STABLE == <<1, 45, 2>>
NEXT_GOOD_STABLE == <<1, 49, 0>>
FIRST_GOOD_NIGHTLY == <<2020, 10, 24>>

\* The comparison of two (u32, u32, u32): the order of tuples is the
\* lexicographic one, decided at the first component that differs.
RECURSIVE TupleCmp(_, _, _)
TupleCmp(a, b, i) ==
    IF i > Len(a) THEN "Equal"
    ELSE IF a[i] < b[i] THEN "Less"
    ELSE IF a[i] > b[i] THEN "Greater"
    ELSE TupleCmp(a, b, i + 1)

TupleLe(a, b) == TupleCmp(a, b, 1) # "Greater"
TupleGe(a, b) == TupleCmp(a, b, 1) # "Less"
TupleGt(a, b) == TupleCmp(a, b, 1) = "Greater"

\* In place of valid: the date compared with > in place of >=.
validStrictDate(os, v) ==
    IF os = "macos"
    THEN LET old_good == TupleLe(v.triple, LAST_GOOD_STABLE)
             new_good == /\ TupleGe(v.triple, NEXT_GOOD_STABLE)
                         /\ TupleGt(v.date, FIRST_GOOD_NIGHTLY)
         IN  old_good \/ new_good
    ELSE TRUE

\* lines 200-213
valid(os, v) ==
    IF os = "macos"
    THEN LET old_good == TupleLe(v.triple, LAST_GOOD_STABLE)
             new_good == /\ TupleGe(v.triple, NEXT_GOOD_STABLE)
                         /\ TupleGe(v.date, FIRST_GOOD_NIGHTLY)
         IN  old_good \/ new_good
    ELSE TRUE

\* The values a field takes: from Span below the smaller to Span above the
\* larger of the constants it is compared with, and never below 0 (u32).
Around(lo, hi) == (IF lo >= Span THEN lo - Span ELSE 0)..(hi + Span)

Triples ==
    {<<a, b, c>> : a \in Around(LAST_GOOD_STABLE[1], NEXT_GOOD_STABLE[1]),
                   b \in Around(LAST_GOOD_STABLE[2], NEXT_GOOD_STABLE[2]),
                   c \in Around(NEXT_GOOD_STABLE[3], LAST_GOOD_STABLE[3])}

Dates ==
    {<<y, m, d>> : y \in Around(FIRST_GOOD_NIGHTLY[1], FIRST_GOOD_NIGHTLY[1]),
                   m \in Around(FIRST_GOOD_NIGHTLY[2], FIRST_GOOD_NIGHTLY[2]),
                   d \in Around(FIRST_GOOD_NIGHTLY[3], FIRST_GOOD_NIGHTLY[3])}

TargetOses == {"macos", "linux", "windows"}

ValidInit ==
    /\ targetOs \in TargetOses
    /\ self \in [triple : Triples, date : Dates]
    /\ validRet = <<>>

\* A call of self.valid() on the build for targetOs.
CallValid ==
    /\ validRet = <<>>
    /\ validRet' = <<valid(targetOs, self)>>
    /\ UNCHANGED <<targetOs, self>>
    /\ UNCHANGED <<pipeVars, checkVars, searchVars>>

ValidSpecInit == PipeInit /\ ValidInit /\ CheckIdle /\ SearchIdle

ValidSpec ==
    /\ ValidSpecInit
    /\ [][CallValid]_vars

\* C7: valid() equals the reference predicate for every operating system,
\* triple and date.  On macOS it is true exactly when
\* triple <= (1,45,2), or triple >= (1,49,0) and date >= (2020,10,24), in the
\* lexicographic order, here written out component by component; so a triple
\* strictly between the two bounds is invalid whatever its date, and
\* (1,49,0) is invalid dated (2020,10,23) and valid dated (2020,10,24).  On
\* every other operating system it is true.
Le3(t, x, y, z) ==
    \/ t[1] < x
    \/ t[1] = x /\ t[2] < y
    \/ t[1] = x /\ t[2] = y /\ t[3] <= z

Ge3(t, x, y, z) ==
    \/ t[1] > x
    \/ t[1] = x /\ t[2] > y
    \/ t[1] = x /\ t[2] = y /\ t[3] >= z

C7_ValidIsTheReferencePredicate ==
    validRet # <<>> =>
        LET r == validRet[1]
            t == self.triple
            d == self.date
        IN  /\ Len(validRet) = 1
            /\ targetOs # "macos" => r = TRUE
            /\ targetOs = "macos" =>
                  /\ r <=> \/ Le3(t, 1, 45, 2)
                           \/ Ge3(t, 1, 49, 0) /\ Ge3(d, 2020, 10, 24)
                  /\ (~Le3(t, 1, 45, 2) /\ ~Ge3(t, 1, 49, 0)) => r = FALSE
                  /\ (t = <<1, 49, 0>> /\ d = <<2020, 10, 23>>) => r = FALSE
                  /\ (t = <<1, 49, 0>> /\ d = <<2020, 10, 24>>) => r = TRUE

C7_Witness ==
    /\ targetOs = "macos"
    /\ self.triple = <<1, 49, 0>>
    /\ self.date = <<2020, 10, 24>>
    /\ validRet = <<TRUE>>

\* ---------------------------------------------------- RustVersion::check()

\* lines 192-197: the value check() builds.  The body that ran
\* `rustc --version` and parsed its output (lines 146-191) is commented out.
check ==
    [kind |-> "Ok",
     triple |-> <<1, 49, 0>>,
     flavor |-> "None",
     hash |-> "fffffffff",
     date |-> <<2021, 2, 11>>]

\* The substrings the pattern of line 162 can match: \d+ for major, minor and
\* patch (any number of digits, so possibly more than a u32 holds), \d{4} for
\* the year, \d{2} for the month and the day.
VersionTexts == {<<1>>, <<4, 9>>, <<4, 2, 9, 4, 9, 6, 7, 2, 9, 6>>}
YearTexts == {<<2, 0, 2, 0>>, <<2, 0, 2, 1>>}
MonthTexts == {<<0, 2>>, <<1, 0>>}
DayTexts == {<<1, 1>>, <<2, 4>>}

NoMatch ==
    [matches |-> FALSE, major |-> <<>>, minor |-> <<>>, patch |-> <<>>,
     year |-> <<>>, month |-> <<>>, day |-> <<>>]

RustcOutputs ==
    {NoMatch} \cup
    [matches : {TRUE}, major : VersionTexts, minor : VersionTexts,
     patch : VersionTexts, year : YearTexts, month : MonthTexts, day : DayTexts]

\* The environment: whether `rustc --version` runs successfully, what it
\* prints, and how many times it has been run.
CheckInit ==
    /\ rustc \in [invocations : {0}, runs : BOOLEAN, output : RustcOutputs]
    /\ checkRet = <<>>

\* A call of RustVersion::check(): lines 145-198.  No command is run.
CallCheck ==
    /\ checkRet = <<>>
    /\ checkRet' = <<check>>
    /\ UNCHANGED rustc
    /\ UNCHANGED <<pipeVars, validVars, searchVars>>

CheckSpecInit == PipeInit /\ ValidIdle /\ CheckInit /\ SearchIdle

CheckSpec ==
    /\ CheckSpecInit
    /\ [][CallCheck]_vars

\* str::parse::<u32> on a string of decimal digits: it fails exactly when the
\* number is more than u32::MAX, 4294967295.
RECURSIVE StripZeros(_)
StripZeros(ds) ==
    IF Len(ds) > 1 /\ Head(ds) = 0 THEN StripZeros(Tail(ds)) ELSE ds

U32MaxDigits == <<4, 2, 9, 4, 9, 6, 7, 2, 9, 5>>

FitsU32(ds) ==
    LET n == StripZeros(ds)
    IN  \/ Len(n) < Len(U32MaxDigits)
        \/ Len(n) = Len(U32MaxDigits) /\ TupleCmp(n, U32MaxDigits, 1) # "Greater"

RECURSIVE DigitsValue(_)
DigitsValue(ds) ==
    IF ds = <<>> THEN 0
    ELSE 10 * DigitsValue(SubSeq(ds, 1, Len(ds) - 1)) + ds[Len(ds)]

FieldNames == <<"major", "minor", "patch", "year", "month", "day">>

FieldError(name) ==
    CASE name = "major" -> "MajorInvalid"
      [] name = "minor" -> "MinorInvalid"
      [] name = "patch" -> "PatchInvalid"
      [] name = "year" -> "YearInvalid"
      [] name = "month" -> "MonthInvalid"
      [] name = "day" -> "DayInvalid"

\* C8: check() runs the version command; if the command fails or its output
\* does not match, it returns CommandFailed; if the output matches and one of
\* major, minor, patch, year, month, day fails to parse, it returns the error
\* naming a field that failed and no RustVersion; otherwise it returns the
\* RustVersion whose triple and date are the parsed fields.
C8_CheckParsesTheVersionCommand ==
    checkRet # <<>> =>
        LET r == checkRet[1]
            o == rustc.output
            failing == {i \in 1..Len(FieldNames) : ~FitsU32(o[FieldNames[i]])}
        IN  /\ rustc.invocations = 1
            /\ (~rustc.runs \/ ~o.matches) => r.kind = "CommandFailed"
            /\ (rustc.runs /\ o.matches /\ failing # {}) =>
                  r.kind \in {FieldError(FieldNames[i]) : i \in failing}
            /\ (rustc.runs /\ o.matches /\ failing = {}) =>
                  /\ r.kind = "Ok"
                  /\ r.triple = <<DigitsValue(o.major), DigitsValue(o.minor),
                                  DigitsValue(o.patch)>>
                  /\ r.date = <<DigitsValue(o.year), DigitsValue(o.month),
                                DigitsValue(o.day)>>

\* -------------------------------------------------------- run_and_search()

\* The characters of a command's output: "h" and "-" are of the class [\w-],
\* ":" and " " are not.
Chars == {"h", "-", ":", " "}
WordOrHyphen == {"h", "-"}

Texts == SeqsUpTo(Chars, MaxText)

\* The patterns: a literal followed by one capture group, ([\w-]+), the shape
\* of line 67's  host: ([\w-]+) .
Patterns == {[lit |-> <<":">>], [lit |-> <<"h", ":">>]}

Commands == {"rustc --verbose --version", "git log"}

\* The transforms f: line 69's caps[1].to_owned(), and one that reads both
\* of its arguments.
Transforms == {"group1", "text_and_match"}

ApplyF(f, text, caps) ==
    IF f = "group1" THEN <<caps.g1>> ELSE <<text, caps.g0>>

\* The length of the longest run of [\w-] characters of text from position i.
RECURSIVE RunLen(_, _)
RunLen(text, i) ==
    IF i <= Len(text) /\ text[i] \in WordOrHyphen THEN 1 + RunLen(text, i + 1) ELSE 0

LitAt(re, text, i) ==
    /\ i + Len(re.lit) - 1 <= Len(text)
    /\ SubSeq(text, i, i + Len(re.lit) - 1) = re.lit

\* re.captures(text), scanning from position i: the leftmost match, its group
\* greedy; "None" is [found |-> FALSE].
RECURSIVE CapturesFrom(_, _, _)
CapturesFrom(re, text, i) ==
    IF i > Len(text)
    THEN [found |-> FALSE, g0 |-> <<>>, g1 |-> <<>>]
    ELSE LET n == RunLen(text, i + Len(re.lit))
         IN  IF LitAt(re, text, i) /\ n >= 1
             THEN [found |-> TRUE,
                   g0 |-> SubSeq(text, i, i + Len(re.lit) + n - 1),
                   g1 |-> SubSeq(text, i + Len(re.lit), i + Len(re.lit) + n - 1)]
             ELSE CapturesFrom(re, text, i + 1)

captures(re, text) == CapturesFrom(re, text, 1)

RECURSIVE TrimStart(_)
TrimStart(text) ==
    IF text # <<>> /\ Head(text) = " " THEN TrimStart(Tail(text)) ELSE text

RECURSIVE TrimEnd(_)
TrimEnd(text) ==
    IF text # <<>> /\ text[Len(text)] = " "
    THEN TrimEnd(SubSeq(text, 1, Len(text) - 1))
    ELSE text

\* In place of run_and_search: SearchFailed carrying output.trim().
run_and_search_trimmed(a) ==
    IF ~a.cmdOk
    THEN [ret |-> [kind |-> "CommandFailed"], applied |-> <<>>]
    ELSE LET caps == captures(a.re, a.output)
         IN  IF ~caps.found
             THEN [ret |-> [kind |-> "SearchFailed", command |-> a.command,
                            output |-> TrimEnd(TrimStart(a.output))],
                   applied |-> <<[op |-> "captures", text |-> a.output]>>]
             ELSE [ret |-> [kind |-> "Ok", value |-> ApplyF(a.f, a.output, caps)],
                   applied |-> <<[op |-> "captures", text |-> a.output],
                                 [op |-> "f", text |-> a.output, caps |-> caps]>>]

\* lines 285-301.  run_and_wait_for_str returns the command's error without
\* calling the closure, or calls the closure once with the output; the
\* closure applies re, and f to a match.
run_and_search(a) ==
    IF ~a.cmdOk
    THEN [ret |-> [kind |-> "CommandFailed"], applied |-> <<>>]
    ELSE LET caps == captures(a.re, a.output)
         IN  IF ~caps.found
             THEN [ret |-> [kind |-> "SearchFailed", command |-> a.command,
                            output |-> a.output],
                   applied |-> <<[op |-> "captures", text |-> a.output]>>]
             ELSE [ret |-> [kind |-> "Ok", value |-> ApplyF(a.f, a.output, caps)],
                   applied |-> <<[op |-> "captures", text |-> a.output],
                                 [op |-> "f", text |-> a.output, caps |-> caps]>>]

SearchInit ==
    /\ searchArgs \in [command : Commands, cmdOk : BOOLEAN, output : Texts,
                       re : Patterns, f : Transforms]
    /\ searchRet = <<>>
    /\ applied = <<>>

\* A call of run_and_search(command, re, f).
CallRunAndSearch ==
    /\ searchRet = <<>>
    /\ searchRet' = <<run_and_search(searchArgs).ret>>
    /\ applied' = run_and_search(searchArgs).applied
    /\ UNCHANGED searchArgs
    /\ UNCHANGED <<pipeVars, validVars, checkVars>>

SearchSpecInit == PipeInit /\ ValidIdle /\ CheckIdle /\ SearchInit

SearchSpec ==
    /\ SearchSpecInit
    /\ [][CallRunAndSearch]_vars

\* The pattern has a match in text: somewhere the literal stands, followed by
\* a character of the class.
HasMatch(re, text) ==
    \E i \in 1..Len(text) :
        /\ LitAt(re, text, i)
        /\ i + Len(re.lit) <= Len(text)
        /\ text[i + Len(re.lit)] \in WordOrHyphen

\* caps is a match of the pattern in text: its group is a non-empty run of
\* class characters, and the literal followed by the group stands in text.
IsMatchOf(caps, re, text) ==
    /\ caps.found
    /\ caps.g1 # <<>>
    /\ \A k \in 1..Len(caps.g1) : caps.g1[k] \in WordOrHyphen
    /\ caps.g0 = re.lit \o caps.g1
    /\ \E i \in 1..Len(text) :
          /\ i + Len(caps.g0) - 1 <= Len(text)
          /\ SubSeq(text, i, i + Len(caps.g0) - 1) = caps.g0

FApplications == {i \in 1..Len(applied) : applied[i].op = "f"}
ReApplications == {i \in 1..Len(applied) : applied[i].op = "captures"}

\* C9: if the command fails, the result is CommandFailed and neither the
\* pattern nor f is applied; if the command succeeds and the pattern has no
\* match in its output, the result is SearchFailed carrying the command's
\* textual form and the full, unmodified output, and f is never invoked; if
\* the pattern matches, f is invoked exactly once, with the full output and
\* the captures, and the result is what f returned.
C9_RunAndSearchOutcomes ==
    searchRet # <<>> =>
        LET a == searchArgs
            r == searchRet[1]
        IN  /\ Len(searchRet) = 1
            /\ ~a.cmdOk =>
                  /\ r = [kind |-> "CommandFailed"]
                  /\ applied = <<>>
            /\ (a.cmdOk /\ ~HasMatch(a.re, a.output)) =>
                  /\ r = [kind |-> "SearchFailed", command |-> a.command,
                          output |-> a.output]
                  /\ FApplications = {}
            /\ (a.cmdOk /\ HasMatch(a.re, a.output)) =>
                  /\ Cardinality(FApplications) = 1
                  /\ Cardinality(ReApplications) = 1
                  /\ \A i \in FApplications :
                        /\ applied[i].text = a.output
                        /\ IsMatchOf(applied[i].caps, a.re, a.output)
                        /\ r = [kind |-> "Ok",
                                value |-> ApplyF(a.f, a.output, applied[i].caps)]

C9_Witness ==
    /\ searchRet # <<>>
    /\ searchArgs.cmdOk
    /\ Len(searchArgs.output) = MaxText
    /\ ~HasMatch(searchArgs.re, searchArgs.output)
    /\ searchRet[1].kind = "SearchFailed"
    /\ searchRet[1].output = searchArgs.output

====
